---- MODULE Spec2Model ----
(***************************************************************************)
(* Intel 8080 (KR580VM80A) core of src/i8080.c as a state machine.         *)
(*                                                                         *)
(* The state is the file-scope `cpu` structure, the pseudo register M and  *)
(* the host memory reached through the HAL.  The operations are the three  *)
(* entry points i8080_init, i8080_instruction and i8080_jump.  The scratch *)
(* statics work8/work16/work32/index/carry/add are written before every    *)
(* read, so they are LET bindings of the instruction that uses them.       *)
(***************************************************************************)
EXTENDS Integers, Sequences, FiniteSets, TLC

VARIABLES cpu, M, mem, ret, last, opc, hal, iffnote, prev, prev2, nsteps, cycles

vars == <<cpu, M, mem, ret, last, opc, hal, iffnote, prev, prev2, nsteps, cycles>>

\* ------------------------------------------------------------------------
\* C integer operators on unsigned values
\* ------------------------------------------------------------------------

Byte == 0..255

Word == 0..65535

Bool(b) == IF b THEN 1 ELSE 0

\* logical negation `!x` of a C integer
Not(x) == IF x = 0 THEN 1 ELSE 0

\* x & y, x | y, x ^ y of one bit position after the other
RECURSIVE AndBits(_, _)
AndBits(x, y) ==
    IF x = 0 \/ y = 0 THEN 0
    ELSE (x % 2) * (y % 2) + 2 * AndBits(x \div 2, y \div 2)

RECURSIVE OrBits(_, _)
OrBits(x, y) ==
    IF x = 0 THEN y
    ELSE IF y = 0 THEN x
    ELSE (IF x % 2 = 1 \/ y % 2 = 1 THEN 1 ELSE 0) + 2 * OrBits(x \div 2, y \div 2)

RECURSIVE XorBits(_, _)
XorBits(x, y) ==
    IF x = 0 THEN y
    ELSE IF y = 0 THEN x
    ELSE (((x % 2) + (y % 2)) % 2) + 2 * XorBits(x \div 2, y \div 2)

\* the same, tabulated per byte
AndByte == [x \in Byte |-> [y \in Byte |-> AndBits(x, y)]]

OrByte == [x \in Byte |-> [y \in Byte |-> OrBits(x, y)]]

XorByte == [x \in Byte |-> [y \in Byte |-> XorBits(x, y)]]

\* the C operators &, | and ^ on values of up to 24 bits
BitAnd(x, y) ==
    IF x < 256 /\ y < 256 THEN AndByte[x][y]
    ELSE AndByte[x % 256][y % 256]
         + 256 * AndByte[(x \div 256) % 256][(y \div 256) % 256]
         + 65536 * AndByte[x \div 65536][y \div 65536]

BitOr(x, y) ==
    IF x < 256 /\ y < 256 THEN OrByte[x][y]
    ELSE OrByte[x % 256][y % 256]
         + 256 * OrByte[(x \div 256) % 256][(y \div 256) % 256]
         + 65536 * OrByte[x \div 65536][y \div 65536]

BitXor(x, y) ==
    IF x < 256 /\ y < 256 THEN XorByte[x][y]
    ELSE XorByte[x % 256][y % 256]
         + 256 * XorByte[(x \div 256) % 256][(y \div 256) % 256]
         + 65536 * XorByte[x \div 65536][y \div 65536]

Shr(x, n) == x \div (2 ^ n)

Shl(x, n) == x * (2 ^ n)

\* conversion to uns8 / uns16 (also of negative ints)
U8(x) == (x + 65536) % 256

U16(x) == (x + 65536) % 65536

\* ------------------------------------------------------------------------
\* HAL port: memory owned by the host, 16-bit addresses, little-endian
\* words, a word access at 0xFFFF wraps to 0x0000.  Memory is kept as the
\* finite map of its non-zero bytes; every other byte reads 0.
\* ------------------------------------------------------------------------

RD_BYTE(m, addr) == IF U16(addr) \in DOMAIN m THEN m[U16(addr)] ELSE 0

RD_WORD(m, addr) == RD_BYTE(m, addr) + 256 * RD_BYTE(m, addr + 1)

WR_BYTE(m, addr, value) ==
    LET a == U16(addr)
        v == U8(value)
    IN  IF v = 0
        THEN [x \in DOMAIN m \ {a} |-> m[x]]
        ELSE [x \in DOMAIN m \cup {a} |-> IF x = a THEN v ELSE m[x]]

WR_WORD(m, addr, value) ==
    WR_BYTE(WR_BYTE(m, addr, BitAnd(U16(value), 255)), addr + 1, Shr(U16(value), 8))

\* ------------------------------------------------------------------------
\* Register file
\* ------------------------------------------------------------------------

F_CARRY == 1
F_UN1 == 2
F_PARITY == 4
F_UN3 == 8
F_HCARRY == 16
F_UN5 == 32
F_ZERO == 64
F_NEG == 128

\* the 16-bit views of the reg_pair unions (l is the low byte)
AF(c) == c.A * 256 + c.F
BC(c) == c.B * 256 + c.C
DE(c) == c.D * 256 + c.E
HL(c) == c.H * 256 + c.L

SetAF(c, w) == [c EXCEPT !.A = Shr(U16(w), 8), !.F = U16(w) % 256]
SetBC(c, w) == [c EXCEPT !.B = Shr(U16(w), 8), !.C = U16(w) % 256]
SetDE(c, w) == [c EXCEPT !.D = Shr(U16(w), 8), !.E = U16(w) % 256]
SetHL(c, w) == [c EXCEPT !.H = Shr(U16(w), 8), !.L = U16(w) % 256]

DEST(x) == BitAnd(Shr(x, 3), 7)
SOURCE(x) == BitAnd(x, 7)
CONDITION(x) == BitAnd(Shr(x, 3), 7)
VECTOR(x) == BitAnd(Shr(x, 3), 7)
RP(x) == BitAnd(Shr(x, 4), 3)

\* *REG[i]: B, C, D, E, H, L, M, A
REG(s, i) ==
    CASE i = 0 -> s.cpu.B
      [] i = 1 -> s.cpu.C
      [] i = 2 -> s.cpu.D
      [] i = 3 -> s.cpu.E
      [] i = 4 -> s.cpu.H
      [] i = 5 -> s.cpu.L
      [] i = 6 -> s.M
      [] i = 7 -> s.cpu.A

SetREG(s, i, v) ==
    CASE i = 0 -> [s EXCEPT !.cpu.B = U8(v)]
      [] i = 1 -> [s EXCEPT !.cpu.C = U8(v)]
      [] i = 2 -> [s EXCEPT !.cpu.D = U8(v)]
      [] i = 3 -> [s EXCEPT !.cpu.E = U8(v)]
      [] i = 4 -> [s EXCEPT !.cpu.H = U8(v)]
      [] i = 5 -> [s EXCEPT !.cpu.L = U8(v)]
      [] i = 6 -> [s EXCEPT !.M = U8(v)]
      [] i = 7 -> [s EXCEPT !.cpu.A = U8(v)]

\* *PAIR[i]: BC, DE, HL, SP
PAIR(c, i) ==
    CASE i = 0 -> BC(c)
      [] i = 1 -> DE(c)
      [] i = 2 -> HL(c)
      [] i = 3 -> c.SP

SetPAIR(c, i, w) ==
    CASE i = 0 -> SetBC(c, w)
      [] i = 1 -> SetDE(c, w)
      [] i = 2 -> SetHL(c, w)
      [] i = 3 -> [c EXCEPT !.SP = U16(w)]

\* ------------------------------------------------------------------------
\* Flag helpers
\* ------------------------------------------------------------------------

\* i8080_getParity without the final negation (odd parity)
i8080_getParity_Odd(val) ==
    LET v1 == BitXor(val, Shr(val, 4))
        v2 == BitAnd(v1, 15)
    IN  BitAnd(Shr(27030, v2), 1)

i8080_getParity(val) ==
    LET v1 == BitXor(val, Shr(val, 4))
        v2 == BitAnd(v1, 15)
    IN  Not(BitAnd(Shr(27030, v2), 1))

PARITY(reg) == i8080_getParity(reg)

half_carry_table == <<0, 0, 1, 0, 1, 0, 1, 1>>

\* a subtraction table with the entries for a set and a clear result bit 3
\* exchanged
sub_half_carry_table_Swapped == <<1, 0, 1, 1, 0, 0, 1, 0>>

sub_half_carry_table == <<0, 1, 1, 1, 0, 0, 0, 1>>

\* index = ((A & 0x88) >> 1) | ((val & 0x88) >> 2) | ((work16 & 0x88) >> 3)
HcIndex(a, val, work16) ==
    BitOr(BitOr(Shr(BitAnd(a, 136), 1), Shr(BitAnd(val, 136), 2)),
          Shr(BitAnd(work16, 136), 3))

\* ------------------------------------------------------------------------
\* ALU macros: each maps the cpu record to the cpu record after the macro
\* ------------------------------------------------------------------------

\* INR(reg) and DCR(reg) act on an lvalue: they give the new value and the
\* cpu record with the flags set; the caller stores the value where reg lives.
\* INR that sets the carry as an addition of 1 would
INR_SetsCarry(c, reg) ==
    LET r == U8(reg + 1)
    IN  [val |-> r,
         cpu |-> [c EXCEPT !.S_FLAG = Bool(BitAnd(r, 128) # 0),
                           !.Z_FLAG = Bool(r = 0),
                           !.H_FLAG = Bool(BitAnd(r, 15) = 0),
                           !.P_FLAG = PARITY(r),
                           !.C_FLAG = Bool(r = 0)]]

INR(c, reg) ==
    LET r == U8(reg + 1)
    IN  [val |-> r,
         cpu |-> [c EXCEPT !.S_FLAG = Bool(BitAnd(r, 128) # 0),
                           !.Z_FLAG = Bool(r = 0),
                           !.H_FLAG = Bool(BitAnd(r, 15) = 0),
                           !.P_FLAG = PARITY(r)]]

DCR(c, reg) ==
    LET r == U8(reg - 1)
    IN  [val |-> r,
         cpu |-> [c EXCEPT !.S_FLAG = Bool(BitAnd(r, 128) # 0),
                           !.Z_FLAG = Bool(r = 0),
                           !.H_FLAG = Not(Bool(BitAnd(r, 15) = 15)),
                           !.P_FLAG = PARITY(r)]]

ADD(c, val) ==
    LET work16 == U16(c.A + val)
        index == HcIndex(c.A, val, work16)
        a == BitAnd(work16, 255)
    IN  [c EXCEPT !.A = a,
                  !.S_FLAG = Bool(BitAnd(a, 128) # 0),
                  !.Z_FLAG = Bool(a = 0),
                  !.H_FLAG = half_carry_table[BitAnd(index, 7) + 1],
                  !.P_FLAG = PARITY(a),
                  !.C_FLAG = Bool(BitAnd(work16, 256) # 0)]

ADC(c, val) ==
    LET work16 == U16(c.A + val + c.C_FLAG)
        index == HcIndex(c.A, val, work16)
        a == BitAnd(work16, 255)
    IN  [c EXCEPT !.A = a,
                  !.S_FLAG = Bool(BitAnd(a, 128) # 0),
                  !.Z_FLAG = Bool(a = 0),
                  !.H_FLAG = half_carry_table[BitAnd(index, 7) + 1],
                  !.P_FLAG = PARITY(a),
                  !.C_FLAG = Bool(BitAnd(work16, 256) # 0)]

SUB(c, val) ==
    LET work16 == U16(c.A - val)
        index == HcIndex(c.A, val, work16)
        a == BitAnd(work16, 255)
    IN  [c EXCEPT !.A = a,
                  !.S_FLAG = Bool(BitAnd(a, 128) # 0),
                  !.Z_FLAG = Bool(a = 0),
                  !.H_FLAG = Not(sub_half_carry_table[BitAnd(index, 7) + 1]),
                  !.P_FLAG = PARITY(a),
                  !.C_FLAG = Bool(BitAnd(work16, 256) # 0)]

\* SBB that adds the borrow to the operand in 8 bits before it subtracts
SBB_ByteOperand(c, val) == SUB(c, U8(val + c.C_FLAG))

SBB(c, val) ==
    LET work16 == U16(c.A - val - c.C_FLAG)
        index == HcIndex(c.A, val, work16)
        a == BitAnd(work16, 255)
    IN  [c EXCEPT !.A = a,
                  !.S_FLAG = Bool(BitAnd(a, 128) # 0),
                  !.Z_FLAG = Bool(a = 0),
                  !.H_FLAG = Not(sub_half_carry_table[BitAnd(index, 7) + 1]),
                  !.P_FLAG = PARITY(a),
                  !.C_FLAG = Bool(BitAnd(work16, 256) # 0)]

\* CMP that takes the sign from the accumulator, as SUB does after its
\* write-back
CMP_SignOfA(c, val) ==
    LET work16 == U16(c.A - val)
        index == HcIndex(c.A, val, work16)
    IN  [c EXCEPT !.S_FLAG = Bool(BitAnd(c.A, 128) # 0),
                  !.Z_FLAG = Bool(BitAnd(work16, 255) = 0),
                  !.H_FLAG = Not(sub_half_carry_table[BitAnd(index, 7) + 1]),
                  !.C_FLAG = Bool(BitAnd(work16, 256) # 0),
                  !.P_FLAG = PARITY(BitAnd(work16, 255))]

CMP(c, val) ==
    LET work16 == U16(c.A - val)
        index == HcIndex(c.A, val, work16)
    IN  [c EXCEPT !.S_FLAG = Bool(BitAnd(work16, 128) # 0),
                  !.Z_FLAG = Bool(BitAnd(work16, 255) = 0),
                  !.H_FLAG = Not(sub_half_carry_table[BitAnd(index, 7) + 1]),
                  !.C_FLAG = Bool(BitAnd(work16, 256) # 0),
                  !.P_FLAG = PARITY(BitAnd(work16, 255))]

ANA(c, val) ==
    LET hf == Bool(BitAnd(BitOr(c.A, val), 8) # 0)
        a == BitAnd(c.A, val)
    IN  [c EXCEPT !.H_FLAG = hf,
                  !.A = a,
                  !.S_FLAG = Bool(BitAnd(a, 128) # 0),
                  !.Z_FLAG = Bool(a = 0),
                  !.P_FLAG = PARITY(a),
                  !.C_FLAG = 0]

XRA(c, val) ==
    LET a == BitXor(c.A, val)
    IN  [c EXCEPT !.A = a,
                  !.S_FLAG = Bool(BitAnd(a, 128) # 0),
                  !.Z_FLAG = Bool(a = 0),
                  !.H_FLAG = 0,
                  !.P_FLAG = PARITY(a),
                  !.C_FLAG = 0]

ORA(c, val) ==
    LET a == BitOr(c.A, val)
    IN  [c EXCEPT !.A = a,
                  !.S_FLAG = Bool(BitAnd(a, 128) # 0),
                  !.Z_FLAG = Bool(a = 0),
                  !.H_FLAG = 0,
                  !.P_FLAG = PARITY(a),
                  !.C_FLAG = 0]

DAD(c, reg) ==
    LET work32 == HL(c) + reg
    IN  [SetHL(c, BitAnd(work32, 65535)) EXCEPT
                  !.C_FLAG = Bool(BitAnd(work32, 65536) # 0)]

\* ------------------------------------------------------------------------
\* Stack and control flow macros on the machine record
\*   s = [cpu, M, mem, hal]
\* ------------------------------------------------------------------------

\* PUSH that writes the word before it moves SP
PUSH_WriteFirst(s, reg) ==
    LET sp == U16(s.cpu.SP - 2)
    IN  [s EXCEPT !.cpu.SP = sp, !.mem = WR_WORD(s.mem, s.cpu.SP, reg)]

\* PUSH(reg): SP -= 2; WR_WORD(SP, reg)
PUSH(s, reg) ==
    LET sp == U16(s.cpu.SP - 2)
    IN  [s EXCEPT !.cpu.SP = sp, !.mem = WR_WORD(s.mem, sp, reg)]

\* a POP that clears the word it has read
POP_Scrub(s) ==
    [val |-> RD_WORD(s.mem, s.cpu.SP),
     st  |-> [s EXCEPT !.cpu.SP = U16(s.cpu.SP + 2),
                       !.mem = WR_WORD(s.mem, s.cpu.SP, 0)]]

\* POP(reg): the word read at SP and the machine with SP += 2; the caller
\* stores the word where reg lives
POP(s) ==
    [val |-> RD_WORD(s.mem, s.cpu.SP),
     st  |-> [s EXCEPT !.cpu.SP = U16(s.cpu.SP + 2)]]

\* CALL: PUSH(PC + 2); PC = RD_WORD(PC)
CALL(s) ==
    LET p == PUSH(s, s.cpu.PC + 2)
    IN  [p EXCEPT !.cpu.PC = RD_WORD(p.mem, p.cpu.PC)]

\* RST(addr): PUSH(PC); PC = addr
RST(s, addr) ==
    LET p == PUSH(s, s.cpu.PC)
    IN  [p EXCEPT !.cpu.PC = U16(addr)]

\* RET(): POP(PC)
RET(s) ==
    LET p == POP(s)
    IN  [p.st EXCEPT !.cpu.PC = p.val]

\* i8080_store_flags that leaves the packed byte as it was
i8080_store_flags_Stale(c) == c

i8080_store_flags(c) ==
    LET f1 == IF c.S_FLAG # 0 THEN BitOr(c.F, F_NEG) ELSE BitAnd(c.F, 255 - F_NEG)
        f2 == IF c.Z_FLAG # 0 THEN BitOr(f1, F_ZERO) ELSE BitAnd(f1, 255 - F_ZERO)
        f3 == IF c.H_FLAG # 0 THEN BitOr(f2, F_HCARRY) ELSE BitAnd(f2, 255 - F_HCARRY)
        f4 == IF c.P_FLAG # 0 THEN BitOr(f3, F_PARITY) ELSE BitAnd(f3, 255 - F_PARITY)
        f5 == IF c.C_FLAG # 0 THEN BitOr(f4, F_CARRY) ELSE BitAnd(f4, 255 - F_CARRY)
        f6 == BitOr(f5, F_UN1)
        f7 == BitAnd(f6, 255 - F_UN3)
        f8 == BitAnd(f7, 255 - F_UN5)
    IN  [c EXCEPT !.F = f8]

\* i8080_retrieve_flags that stores the masked bits of F as they are
i8080_retrieve_flags_Masked(c) ==
    [c EXCEPT !.S_FLAG = BitAnd(c.F, F_NEG),
              !.Z_FLAG = BitAnd(c.F, F_ZERO),
              !.H_FLAG = BitAnd(c.F, F_HCARRY),
              !.P_FLAG = BitAnd(c.F, F_PARITY),
              !.C_FLAG = BitAnd(c.F, F_CARRY)]

i8080_retrieve_flags(c) ==
    [c EXCEPT !.S_FLAG = IF BitAnd(c.F, F_NEG) # 0 THEN 1 ELSE 0,
              !.Z_FLAG = IF BitAnd(c.F, F_ZERO) # 0 THEN 1 ELSE 0,
              !.H_FLAG = IF BitAnd(c.F, F_HCARRY) # 0 THEN 1 ELSE 0,
              !.P_FLAG = IF BitAnd(c.F, F_PARITY) # 0 THEN 1 ELSE 0,
              !.C_FLAG = IF BitAnd(c.F, F_CARRY) # 0 THEN 1 ELSE 0]

i8080_checkCondition(c, cond) ==
    CASE cond = 0 -> Not(c.Z_FLAG)
      [] cond = 1 -> c.Z_FLAG
      [] cond = 2 -> Not(c.C_FLAG)
      [] cond = 3 -> c.C_FLAG
      [] cond = 4 -> Not(c.P_FLAG)
      [] cond = 5 -> c.P_FLAG
      [] cond = 6 -> Not(c.S_FLAG)
      [] cond = 7 -> c.S_FLAG
      [] OTHER -> 0

\* ------------------------------------------------------------------------
\* i8080_execute
\* ------------------------------------------------------------------------

\* a finished instruction: the machine after it and the value of cpu_cycles
Done(s, n) == [st |-> s, cycles |-> n]

\* FetchByte whose PC is not reduced to 16 bits
FetchByte_NoWrap(s) ==
    [val |-> RD_BYTE(s.mem, s.cpu.PC),
     st  |-> [s EXCEPT !.cpu.PC = s.cpu.PC + 1]]

\* RD_BYTE(PC++): the byte at PC and the machine with PC advanced
FetchByte(s) ==
    [val |-> RD_BYTE(s.mem, s.cpu.PC),
     st  |-> [s EXCEPT !.cpu.PC = U16(s.cpu.PC + 1)]]

\* PC += 2
SkipWord(s) == [s EXCEPT !.cpu.PC = U16(s.cpu.PC + 2)]

NopOpcodes == {0, 8, 16, 24, 32, 40, 48, 56}

JmpOpcodes == {195, 203}

RetOpcodes == {201, 217}

CallOpcodes == {205, 221, 237, 253}

\* case 0x07, rlc
RLC(c) ==
    LET cf == Bool(BitAnd(c.A, 128) # 0)
    IN  [c EXCEPT !.C_FLAG = cf, !.A = U8(BitOr(Shl(c.A, 1), cf))]

\* case 0x0F, rrc
RRC(c) ==
    LET cf == BitAnd(c.A, 1)
    IN  [c EXCEPT !.C_FLAG = cf, !.A = U8(BitOr(Shr(c.A, 1), Shl(cf, 7)))]

\* a RAL that feeds bit 7 back into bit 0, as RLC does
RAL_AsRLC(c) == RLC(c)

\* case 0x17, ral
RAL(c) ==
    LET work8 == c.C_FLAG
    IN  [c EXCEPT !.C_FLAG = Bool(BitAnd(c.A, 128) # 0),
                  !.A = U8(BitOr(Shl(c.A, 1), work8))]

\* case 0x1F, rar
RAR(c) ==
    LET work8 == c.C_FLAG
    IN  [c EXCEPT !.C_FLAG = BitAnd(c.A, 1),
                  !.A = U8(BitOr(Shr(c.A, 1), Shl(work8, 7)))]

\* an XTHL that loads HL from the stack and leaves the stack word alone
XTHL_NoWriteBack(s) == [s EXCEPT !.cpu = SetHL(s.cpu, RD_WORD(s.mem, s.cpu.SP))]

\* case 0xE3, xthl
XTHL(s) ==
    LET work16 == RD_WORD(s.mem, s.cpu.SP)
    IN  [s EXCEPT !.mem = WR_WORD(s.mem, s.cpu.SP, HL(s.cpu)),
                  !.cpu = SetHL(s.cpu, work16)]

\* case 0xEB, xchg
XCHG(c) ==
    LET work16 == DE(c)
    IN  SetHL(SetDE(c, HL(c)), work16)

\* a latch update that notifies the host before it stores the new value
SetIFF_NotifyFirst(s, v) ==
    [s EXCEPT !.hal = Append(s.hal, [fn |-> "iff", port |-> 0, value |-> s.cpu.IFF]),
              !.cpu.IFF = v]

\* case 0xF3, di and case 0xFB, ei: IFF = v; i8080_hal_iff(IFF)
SetIFF(s, v) ==
    LET s1 == [s EXCEPT !.cpu.IFF = v]
    IN  [s1 EXCEPT !.hal = Append(s.hal, [fn |-> "iff", port |-> 0,
                                          value |-> s1.cpu.IFF])]

\* a DAA that adds 0x60 only when the carry is set or the high nibble exceeds 9
DAA_NoNibbleChain(c) ==
    LET carry0 == c.C_FLAG
        add1 == IF c.H_FLAG # 0 \/ BitAnd(c.A, 15) > 9 THEN 6 ELSE 0
        hi == c.C_FLAG # 0 \/ Shr(c.A, 4) > 9
        add2 == IF hi THEN BitOr(add1, 96) ELSE add1
        carry == IF hi THEN 1 ELSE carry0
        c1 == ADD(c, add2)
    IN  [c1 EXCEPT !.P_FLAG = PARITY(c1.A), !.C_FLAG = carry]

\* case 0x27, daa
DAA(c) ==
    LET carry0 == c.C_FLAG
        add1 == IF c.H_FLAG # 0 \/ BitAnd(c.A, 15) > 9 THEN 6 ELSE 0
        hi == c.C_FLAG # 0 \/ Shr(c.A, 4) > 9
                \/ (Shr(c.A, 4) >= 9 /\ BitAnd(c.A, 15) > 9)
        add2 == IF hi THEN BitOr(add1, 96) ELSE add1
        carry == IF hi THEN 1 ELSE carry0
        c1 == ADD(c, add2)
    IN  [c1 EXCEPT !.P_FLAG = PARITY(c1.A), !.C_FLAG = carry]

\* the first switch: opcodes matched exactly; cycles = 0 when none matches
ExecExact(opcode, s, inp) ==
    LET c == s.cpu
        hlm == RD_BYTE(s.mem, HL(c))
        imm == FetchByte(s)
    IN
    CASE opcode \in NopOpcodes -> Done(s, 4)
      [] opcode = 7 -> Done([s EXCEPT !.cpu = RLC(c)], 4)      \* rlc
      [] opcode = 15 -> Done([s EXCEPT !.cpu = RRC(c)], 4)     \* rrc
      [] opcode = 23 -> Done([s EXCEPT !.cpu = RAL(c)], 4)     \* ral
      [] opcode = 31 -> Done([s EXCEPT !.cpu = RAR(c)], 4)     \* rar
      [] opcode = 34 ->                                        \* shld addr
            Done(SkipWord([s EXCEPT !.mem =
                     WR_WORD(s.mem, RD_WORD(s.mem, c.PC), HL(c))]), 16)
      [] opcode = 39 -> Done([s EXCEPT !.cpu = DAA(c)], 4)     \* daa
      [] opcode = 42 ->                                        \* lhld addr
            Done(SkipWord([s EXCEPT !.cpu =
                     SetHL(c, RD_WORD(s.mem, RD_WORD(s.mem, c.PC)))]), 16)
      [] opcode = 47 ->                                        \* cma
            Done([s EXCEPT !.cpu.A = BitXor(c.A, 255)], 4)
      [] opcode = 50 ->                                        \* sta addr
            Done(SkipWord([s EXCEPT !.mem =
                     WR_BYTE(s.mem, RD_WORD(s.mem, c.PC), c.A)]), 13)
      [] opcode = 52 ->                                        \* inr m
            LET r == INR(c, hlm)
            IN  Done([s EXCEPT !.cpu = r.cpu,
                               !.mem = WR_BYTE(s.mem, HL(c), r.val)], 10)
      [] opcode = 53 ->                                        \* dcr m
            LET r == DCR(c, hlm)
            IN  Done([s EXCEPT !.cpu = r.cpu,
                               !.mem = WR_BYTE(s.mem, HL(c), r.val)], 10)
      [] opcode = 54 ->                                        \* mvi m, data8
            Done([imm.st EXCEPT !.mem = WR_BYTE(s.mem, HL(c), imm.val)], 10)
      [] opcode = 55 -> Done([s EXCEPT !.cpu.C_FLAG = 1], 4)   \* stc
      [] opcode = 58 ->                                        \* lda addr
            Done(SkipWord([s EXCEPT !.cpu.A =
                     RD_BYTE(s.mem, RD_WORD(s.mem, c.PC))]), 13)
      [] opcode = 63 ->                                        \* cmc
            Done([s EXCEPT !.cpu.C_FLAG = Not(c.C_FLAG)], 4)
      [] opcode = 118 ->                                       \* hlt
            Done([s EXCEPT !.cpu.PC = U16(c.PC - 1)], 4)
      [] opcode = 134 -> Done([s EXCEPT !.cpu = ADD(c, hlm)], 7)
      [] opcode = 142 -> Done([s EXCEPT !.cpu = ADC(c, hlm)], 7)
      [] opcode = 150 -> Done([s EXCEPT !.cpu = SUB(c, hlm)], 7)
      [] opcode = 158 -> Done([s EXCEPT !.cpu = SBB(c, hlm)], 7)
      [] opcode = 166 -> Done([s EXCEPT !.cpu = ANA(c, hlm)], 7)
      [] opcode = 174 -> Done([s EXCEPT !.cpu = XRA(c, hlm)], 7)
      [] opcode = 182 -> Done([s EXCEPT !.cpu = ORA(c, hlm)], 7)
      [] opcode = 190 -> Done([s EXCEPT !.cpu = CMP(c, hlm)], 7)
      [] opcode \in JmpOpcodes ->                              \* jmp addr
            Done([s EXCEPT !.cpu.PC = RD_WORD(s.mem, c.PC)], 10)
      [] opcode = 198 ->                                       \* adi data8
            Done([imm.st EXCEPT !.cpu = ADD(imm.st.cpu, imm.val)], 7)
      [] opcode \in RetOpcodes -> Done(RET(s), 10)             \* ret
      [] opcode \in CallOpcodes -> Done(CALL(s), 17)           \* call addr
      [] opcode = 206 ->                                       \* aci data8
            Done([imm.st EXCEPT !.cpu = ADC(imm.st.cpu, imm.val)], 7)
      [] opcode = 211 ->                                       \* out port8
            Done([imm.st EXCEPT !.hal = Append(s.hal,
                     [fn |-> "io_output", port |-> imm.val, value |-> c.A])], 10)
      [] opcode = 214 ->                                       \* sui data8
            Done([imm.st EXCEPT !.cpu = SUB(imm.st.cpu, imm.val)], 7)
      [] opcode = 219 ->                                       \* in port8
            Done([imm.st EXCEPT !.cpu.A = U8(inp),
                                !.hal = Append(s.hal,
                     [fn |-> "io_input", port |-> imm.val, value |-> inp])], 10)
      [] opcode = 222 ->                                       \* sbi data8
            Done([imm.st EXCEPT !.cpu = SBB(imm.st.cpu, imm.val)], 7)
      [] opcode = 227 -> Done(XTHL(s), 18)                     \* xthl
      [] opcode = 230 ->                                       \* ani data8
            Done([imm.st EXCEPT !.cpu = ANA(imm.st.cpu, imm.val)], 7)
      [] opcode = 233 ->                                       \* pchl
            Done([s EXCEPT !.cpu.PC = HL(c)], 5)
      [] opcode = 235 -> Done([s EXCEPT !.cpu = XCHG(c)], 4)   \* xchg
      [] opcode = 238 ->                                       \* xri data8
            Done([imm.st EXCEPT !.cpu = XRA(imm.st.cpu, imm.val)], 7)
      [] opcode = 241 ->                                       \* pop psw
            LET p == POP(s)
            IN  Done([p.st EXCEPT !.cpu =
                     i8080_retrieve_flags(SetAF(p.st.cpu, p.val))], 10)
      [] opcode = 243 -> Done(SetIFF(s, 0), 4)                 \* di
      [] opcode = 245 ->                                       \* push psw
            LET c1 == i8080_store_flags(c)
            IN  Done(PUSH([s EXCEPT !.cpu = c1], AF(c1)), 11)
      [] opcode = 246 ->                                       \* ori data8
            Done([imm.st EXCEPT !.cpu = ORA(imm.st.cpu, imm.val)], 7)
      [] opcode = 249 ->                                       \* sphl
            Done([s EXCEPT !.cpu.SP = HL(c)], 5)
      [] opcode = 251 -> Done(SetIFF(s, 1), 4)                 \* ei
      [] opcode = 254 ->                                       \* cpi data8
            Done([imm.st EXCEPT !.cpu = CMP(imm.st.cpu, imm.val)], 7)
      [] OTHER -> Done(s, 0)

\* the second switch (opcode & 0b11111000): cmp,ora,xra,ana,sbb,sub,adc,add
ExecAlu(opcode, s) ==
    LET c == s.cpu
        v == REG(s, SOURCE(opcode))
        fam == BitAnd(opcode, 248)
    IN
    CASE fam = 184 -> Done([s EXCEPT !.cpu = CMP(c, v)], 4)
      [] fam = 176 -> Done([s EXCEPT !.cpu = ORA(c, v)], 4)
      [] fam = 168 -> Done([s EXCEPT !.cpu = XRA(c, v)], 4)
      [] fam = 160 -> Done([s EXCEPT !.cpu = ANA(c, v)], 4)
      [] fam = 152 -> Done([s EXCEPT !.cpu = SBB(c, v)], 4)
      [] fam = 144 -> Done([s EXCEPT !.cpu = SUB(c, v)], 4)
      [] fam = 136 -> Done([s EXCEPT !.cpu = ADC(c, v)], 4)
      [] fam = 128 -> Done([s EXCEPT !.cpu = ADD(c, v)], 4)
      [] OTHER -> Done(s, 0)

\* the third switch (opcode & 0b11000111): rst,cccc,jccc,rccc,mvi,dcr,inr
ExecCond(opcode, s) ==
    LET c == s.cpu
        fam == BitAnd(opcode, 199)
        cond == i8080_checkCondition(c, CONDITION(opcode))
        imm == FetchByte(s)
    IN
    CASE fam = 199 -> Done(RST(s, DEST(opcode) * 8), 11)
      [] fam = 196 -> IF cond # 0 THEN Done(CALL(s), 17)
                                  ELSE Done(SkipWord(s), 11)
      [] fam = 194 -> IF cond # 0
                      THEN Done([s EXCEPT !.cpu.PC = RD_WORD(s.mem, c.PC)], 10)
                      ELSE Done(SkipWord(s), 10)
      [] fam = 192 -> IF cond # 0 THEN Done(RET(s), 11) ELSE Done(s, 5)
      [] fam = 6 -> Done(SetREG(imm.st, DEST(opcode), imm.val), 7)
      [] fam = 5 ->
            LET r == DCR(c, REG(s, DEST(opcode)))
            IN  Done(SetREG([s EXCEPT !.cpu = r.cpu], DEST(opcode), r.val), 5)
      [] fam = 4 ->
            LET r == INR(c, REG(s, DEST(opcode)))
            IN  Done(SetREG([s EXCEPT !.cpu = r.cpu], DEST(opcode), r.val), 5)
      [] OTHER -> Done(s, 0)

\* the fourth switch (opcode & 0b11001111): push,pop,dcx,ldax,dad,inx,stax,lxi
ExecPair(opcode, s) ==
    LET c == s.cpu
        fam == BitAnd(opcode, 207)
        rp == RP(opcode)
    IN
    CASE fam = 197 ->
            \* PUSH(*PAIR[rp]) reads the pair after SP -= 2
            Done(PUSH(s, IF rp = 3 THEN U16(c.SP - 2) ELSE PAIR(c, rp)), 11)
      [] fam = 193 ->
            \* POP(*PAIR[rp]) stores the word, then SP += 2
            LET w == RD_WORD(s.mem, c.SP)
                c1 == SetPAIR(c, rp, w)
            IN  Done([s EXCEPT !.cpu = [c1 EXCEPT !.SP = U16(c1.SP + 2)]], 11)
      [] fam = 11 -> Done([s EXCEPT !.cpu = SetPAIR(c, rp, PAIR(c, rp) - 1)], 5)
      [] fam = 10 -> Done([s EXCEPT !.cpu.A = RD_BYTE(s.mem, PAIR(c, rp))], 7)
      [] fam = 9 -> Done([s EXCEPT !.cpu = DAD(c, PAIR(c, rp))], 10)
      [] fam = 3 -> Done([s EXCEPT !.cpu = SetPAIR(c, rp, PAIR(c, rp) + 1)], 5)
      [] fam = 2 -> Done([s EXCEPT !.mem = WR_BYTE(s.mem, PAIR(c, rp), c.A)], 7)
      [] fam = 1 ->
            Done(SkipWord([s EXCEPT !.cpu = SetPAIR(c, rp, RD_WORD(s.mem, c.PC))]), 10)
      [] OTHER -> Done(s, 0)

\* ExecMov with the family mask compared against the wrong constant
ExecMov_WrongMask(opcode, s) ==
    IF BitAnd(opcode, 192) = 192
    THEN IF DEST(opcode) = 6
         THEN Done([s EXCEPT !.mem =
                  WR_BYTE(s.mem, HL(s.cpu), REG(s, SOURCE(opcode)))], 5)
         ELSE IF SOURCE(opcode) = 6
         THEN Done(SetREG(s, DEST(opcode), RD_BYTE(s.mem, HL(s.cpu))), 5)
         ELSE Done(SetREG(s, DEST(opcode), REG(s, SOURCE(opcode))), 5)
    ELSE Done(s, 0)

\* mov d,s
ExecMov(opcode, s) ==
    IF BitAnd(opcode, 192) = 64
    THEN IF DEST(opcode) = 6
         THEN Done([s EXCEPT !.mem =
                  WR_BYTE(s.mem, HL(s.cpu), REG(s, SOURCE(opcode)))], 5)
         ELSE IF SOURCE(opcode) = 6
         THEN Done(SetREG(s, DEST(opcode), RD_BYTE(s.mem, HL(s.cpu))), 5)
         ELSE Done(SetREG(s, DEST(opcode), REG(s, SOURCE(opcode))), 5)
    ELSE Done(s, 0)

\* i8080_execute that tries the pair-operand family before the exact matches
i8080_execute_PairFirst(opcode, s, inp) ==
    LET r1 == ExecExact(opcode, s, inp)
        r2 == ExecAlu(opcode, s)
        r3 == ExecCond(opcode, s)
        r4 == ExecPair(opcode, s)
        r5 == ExecMov(opcode, s)
    IN  IF r4.cycles # 0 THEN r4
        ELSE IF r1.cycles # 0 THEN r1
        ELSE IF r2.cycles # 0 THEN r2
        ELSE IF r3.cycles # 0 THEN r3
        ELSE IF r5.cycles # 0 THEN r5
        ELSE Done(s, -1)

\* i8080_execute that tries the MOV family before the exact matches
i8080_execute_MovFirst(opcode, s, inp) ==
    LET r1 == ExecExact(opcode, s, inp)
        r2 == ExecAlu(opcode, s)
        r3 == ExecCond(opcode, s)
        r4 == ExecPair(opcode, s)
        r5 == ExecMov(opcode, s)
    IN  IF r5.cycles # 0 THEN r5
        ELSE IF r1.cycles # 0 THEN r1
        ELSE IF r2.cycles # 0 THEN r2
        ELSE IF r3.cycles # 0 THEN r3
        ELSE IF r4.cycles # 0 THEN r4
        ELSE Done(s, -1)

i8080_execute(opcode, s, inp) ==
    LET r1 == ExecExact(opcode, s, inp)
        r2 == ExecAlu(opcode, s)
        r3 == ExecCond(opcode, s)
        r4 == ExecPair(opcode, s)
        r5 == ExecMov(opcode, s)
    IN  IF r1.cycles # 0 THEN r1
        ELSE IF r2.cycles # 0 THEN r2
        ELSE IF r3.cycles # 0 THEN r3
        ELSE IF r4.cycles # 0 THEN r4
        ELSE IF r5.cycles # 0 THEN r5
        ELSE Done(s, -1)

\* return i8080_execute(RD_BYTE(PC++))
i8080_instruction(s, inp) ==
    LET f == FetchByte(s)
    IN  i8080_execute(f.val, f.st, inp)

i8080_init(c) ==
    [c EXCEPT !.C_FLAG = 0, !.S_FLAG = 0, !.Z_FLAG = 0, !.H_FLAG = 0,
              !.P_FLAG = 0, !.UN1_FLAG = 1, !.UN3_FLAG = 0, !.UN5_FLAG = 0,
              !.PC = 63488]

i8080_jump(c, addr) == [c EXCEPT !.PC = BitAnd(U16(addr), 65535)]

\* ------------------------------------------------------------------------
\* The state machine: the host calls i8080_init, i8080_instruction and
\* i8080_jump in any order.
\*   ret      value returned by the last i8080_instruction (0: none yet)
\*   last     the last call: "none", "init", "step" or "jump"
\*   opc      the opcode the last step fetched (-1: none yet)
\*   hal      the HAL I/O and latch calls the last step made
\*   iffnote  the last value passed to i8080_hal_iff (-1: none yet)
\*   prev     the machine before the last call, prev2 before the one before
\*   nsteps   the number of calls made, cycles the sum of the values returned
\* ------------------------------------------------------------------------

MaxCalls == 2

MaxNopSteps == 65536

\* static struct i8080 cpu: zero initialised
CpuZero ==
    [A |-> 0, F |-> 0, B |-> 0, C |-> 0, D |-> 0, E |-> 0, H |-> 0, L |-> 0,
     SP |-> 0, PC |-> 0, IFF |-> 0, last_pc |-> 0,
     C_FLAG |-> 0, UN1_FLAG |-> 0, P_FLAG |-> 0, UN3_FLAG |-> 0,
     H_FLAG |-> 0, UN5_FLAG |-> 0, Z_FLAG |-> 0, S_FLAG |-> 0]

\* no byte of memory is non-zero
MemZero == [x \in {} |-> 0]

Snapshot == [cpu |-> cpu, M |-> M, mem |-> mem, last |-> last, opc |-> opc,
             ret |-> ret]

\* i8080_instruction() called by the host; inp is what the input port would
\* deliver if the instruction is IN
Step(limit, inp) ==
    /\ nsteps < limit
    /\ \E r \in {i8080_instruction([cpu |-> cpu, M |-> M, mem |-> mem, hal |-> <<>>], inp)} :
           /\ cpu' = r.st.cpu
           /\ M' = r.st.M
           /\ mem' = r.st.mem
           /\ hal' = r.st.hal
           /\ ret' = r.cycles
           /\ cycles' = cycles + r.cycles
           /\ iffnote' = IF Len(r.st.hal) > 0 /\ r.st.hal[Len(r.st.hal)].fn = "iff"
                         THEN r.st.hal[Len(r.st.hal)].value ELSE iffnote
    /\ opc' = RD_BYTE(mem, cpu.PC)
    /\ last' = "step"
    /\ prev' = Snapshot
    /\ prev2' = prev
    /\ nsteps' = nsteps + 1

\* i8080_init() called by the host
DoInit ==
    /\ nsteps < MaxCalls
    /\ cpu' = i8080_init(cpu)
    /\ last' = "init"
    /\ prev' = Snapshot
    /\ prev2' = prev
    /\ nsteps' = nsteps + 1
    /\ UNCHANGED <<M, mem, ret, opc, hal, iffnote, cycles>>

\* i8080_jump(addr) called by the host
Jump(addr) ==
    /\ nsteps < MaxCalls
    /\ cpu' = i8080_jump(cpu, addr)
    /\ last' = "jump"
    /\ prev' = Snapshot
    /\ prev2' = prev
    /\ nsteps' = nsteps + 1
    /\ UNCHANGED <<M, mem, ret, opc, hal, iffnote, cycles>>

\* the ghost variables of a machine that has not been called yet
Fresh ==
    /\ M = 0
    /\ ret = 0
    /\ last = "none"
    /\ opc = -1
    /\ hal = <<>>
    /\ iffnote = -1
    /\ nsteps = 0
    /\ cycles = 0
    /\ prev = Snapshot
    /\ prev2 = Snapshot

InputBytes == {0, 165}

\* what the host's input port may deliver to the next step: any byte when the
\* next instruction is IN (0xDB); no other instruction calls i8080_hal_io_input
PortInputs == IF RD_BYTE(mem, cpu.PC) = 219 THEN InputBytes ELSE {0}

JumpAddrs == {256, 65536 + 63488}

\* ------------------------------------------------------------------------
\* Spec: one instruction of every opcode, from register files a program can
\* produce, followed by any calls
\* ------------------------------------------------------------------------

\* register files: flags as POP PSW leaves them for the byte f, optionally
\* followed by CMC; the rest as LXI / MVI load them
Scenarios ==
    { [pc |-> 256,   sp |-> 768,   a |-> 155, b |-> 1,   c |-> 2,   d |-> 3,
       e |-> 4,   h |-> 2,   l |-> 0,   lo |-> 0,   hi |-> 2,   data |-> 15],
      [pc |-> 256,   sp |-> 1,     a |-> 0,   b |-> 255, c |-> 255, d |-> 0,
       e |-> 0,   h |-> 255, l |-> 255, lo |-> 255, hi |-> 255, data |-> 255],
      [pc |-> 65535, sp |-> 65535, a |-> 255, b |-> 18,  c |-> 52,  d |-> 86,
       e |-> 120, h |-> 3,   l |-> 1,   lo |-> 52,  hi |-> 18,  data |-> 128],
      [pc |-> 65534, sp |-> 0,     a |-> 128, b |-> 0,   c |-> 0,   d |-> 255,
       e |-> 255, h |-> 0,   l |-> 16,  lo |-> 1,   hi |-> 3,   data |-> 0] }

FlagBytes == {0, 255, 70}

CpuOf(sc, f, cmc) ==
    LET c0 == i8080_init(CpuZero)
        c1 == i8080_retrieve_flags([c0 EXCEPT !.F = f])
    IN  [c1 EXCEPT !.A = sc.a, !.B = sc.b, !.C = sc.c, !.D = sc.d, !.E = sc.e,
                   !.H = sc.h, !.L = sc.l, !.SP = sc.sp, !.PC = sc.pc,
                   !.C_FLAG = IF cmc = 1 THEN Not(c1.C_FLAG) ELSE c1.C_FLAG]

\* host memory: data at HL, BC and DE, a word on the stack, the instruction
\* and its operand bytes at PC
MemOf(sc, op) ==
    LET m1 == WR_BYTE(MemZero, sc.h * 256 + sc.l, sc.data)
        m2 == WR_BYTE(m1, sc.b * 256 + sc.c, 119)
        m3 == WR_BYTE(m2, sc.d * 256 + sc.e, 102)
        m4 == WR_WORD(m3, sc.sp, sc.hi * 256 + sc.lo)
        m5 == WR_BYTE(m4, sc.pc + 2, sc.hi)
        m6 == WR_BYTE(m5, sc.pc + 1, sc.lo)
    IN  WR_BYTE(m6, sc.pc, op)

Init ==
    /\ \E sc \in Scenarios, f \in FlagBytes, cmc \in {0, 1}, op \in Byte :
          /\ cpu = CpuOf(sc, f, cmc)
          /\ mem = MemOf(sc, op)
    /\ Fresh

StepAny == \E inp \in PortInputs : Step(MaxCalls, inp)

JumpAny == \E addr \in JumpAddrs : Jump(addr)

Next == StepAny \/ DoInit \/ JumpAny

Spec == Init /\ [][Next]_vars

\* ------------------------------------------------------------------------
\* SpecNop: i8080_init() on a machine whose memory is all zeros, then steps
\* ------------------------------------------------------------------------

InitNop ==
    /\ cpu = i8080_init(CpuZero)
    /\ mem = MemZero
    /\ Fresh

StepNop == \E inp \in PortInputs : Step(MaxNopSteps, inp)

NextNop == StepNop

SpecNop == InitNop /\ [][NextNop]_vars

\* ------------------------------------------------------------------------
\* SpecStack: a first instruction that sets the flags (POP PSW of any byte,
\* ADI of any byte, or NOP), then PUSH of a pair, then POP of the same pair
\* or POP PSW
\* ------------------------------------------------------------------------

MaxStackSteps == 3

PushOpcodes == {197, 213, 229, 245}

PopOf(push) == IF push = 245 THEN {241} ELSE {push - 4, 241}

\* pc: where the program starts; sp: the stack pointer (the third one makes
\* the PUSH overwrite the POP that follows it)
StackScenarios ==
    { [pc |-> 256,   sp |-> 768, a |-> 155, b |-> 18,  c |-> 52, d |-> 86,
       e |-> 120, h |-> 154, l |-> 188],
      [pc |-> 512,   sp |-> 1,   a |-> 0,   b |-> 255, c |-> 0,  d |-> 0,
       e |-> 255, h |-> 128, l |-> 1],
      [pc |-> 256,   sp |-> 259, a |-> 126, b |-> 1,   c |-> 2,  d |-> 3,
       e |-> 4,   h |-> 5,   l |-> 6] }

\* first instruction: <<241>> pop psw, <<198, v>> adi v, <<0>> nop
FirstInstr(v) == {<<241>>, <<198, v>>, <<0>>}

StackCpu(sc, cmc) ==
    LET c0 == i8080_init(CpuZero)
    IN  [c0 EXCEPT !.A = sc.a, !.B = sc.b, !.C = sc.c, !.D = sc.d, !.E = sc.e,
                   !.H = sc.h, !.L = sc.l, !.SP = sc.sp, !.PC = sc.pc,
                   !.C_FLAG = cmc]

StackMem(sc, first, push, pop, v) ==
    LET n == Len(first)
        m1 == WR_WORD(MemZero, sc.sp, 90 * 256 + v)
        m2 == WR_BYTE(m1, sc.pc + n + 1, pop)
        m3 == WR_BYTE(m2, sc.pc + n, push)
        m4 == IF n = 2 THEN WR_BYTE(m3, sc.pc + 1, first[2]) ELSE m3
    IN  WR_BYTE(m4, sc.pc, first[1])

InitStack ==
    /\ \E sc \in StackScenarios, v \in Byte, cmc \in {0, 1}, push \in PushOpcodes :
         \E first \in FirstInstr(v), pop \in PopOf(push) :
            /\ cpu = StackCpu(sc, cmc)
            /\ mem = StackMem(sc, first, push, pop, v)
    /\ Fresh

StepStack == \E inp \in PortInputs : Step(MaxStackSteps, inp)

NextStack == StepStack

SpecStack == InitStack /\ [][NextStack]_vars

\* ------------------------------------------------------------------------
\* SpecAlu: one 8-bit ALU instruction on every accumulator value, every
\* operand value and either carry
\* ------------------------------------------------------------------------

MaxAluSteps == 1

\* adi, aci, sui, sbi, ani, xri, ori, cpi
AluImmOpcodes == {198, 206, 214, 222, 230, 238, 246, 254}

\* inr a, dcr a, inr m, dcr m
IncDecOpcodes == {60, 61, 52, 53}

\* the register file after i8080_init with A loaded, the operand in B, the
\* carry left by STC / CMC, and S, Z, H, P as POP PSW can leave them
AluCpu(a, v, cin, pf) ==
    [i8080_init(CpuZero) EXCEPT !.A = a, !.B = v, !.C_FLAG = cin,
                                !.S_FLAG = pf, !.Z_FLAG = pf,
                                !.H_FLAG = pf, !.P_FLAG = pf]

\* the instruction at the reset vector, its operand in the byte after it and
\* in the byte at HL = 0
AluMem(op, v) ==
    WR_BYTE(WR_BYTE(WR_BYTE(MemZero, 0, v), 63489, v), 63488, op)

InitAlu ==
    /\ \E op \in AluImmOpcodes \cup IncDecOpcodes, a \in Byte, v \in Byte, cin \in {0, 1} :
          /\ op \in {60, 61} => v = 0
          /\ op \in {52, 53} => a = 0
          /\ op \notin {198, 206, 214, 222, 254, 60, 61, 52, 53} => cin = 0
          /\ cpu = AluCpu(a, v, cin, 0)
          /\ mem = AluMem(op, v)
    /\ Fresh

StepAlu == \E inp \in PortInputs : Step(MaxAluSteps, inp)

NextAlu == StepAlu

SpecAlu == InitAlu /\ [][NextAlu]_vars

\* ------------------------------------------------------------------------
\* SpecCmp: one compare (cpi, cmp b, cmp m) on every accumulator value and
\* every operand value, from several prior flag states
\* ------------------------------------------------------------------------

MaxCmpSteps == 1

\* cpi, cmp b, cmp m
CmpOpcodes == {254, 184, 190}

InitCmp ==
    /\ \E op \in CmpOpcodes, a \in Byte, v \in Byte, cin \in {0, 1}, pf \in {0, 1} :
          /\ op # 254 => (cin = 0 /\ pf = 0)
          /\ cpu = AluCpu(a, v, cin, pf)
          /\ mem = AluMem(op, v)
    /\ Fresh

StepCmp == \E inp \in PortInputs : Step(MaxCmpSteps, inp)

NextCmp == StepCmp

SpecCmp == InitCmp /\ [][NextCmp]_vars

\* ------------------------------------------------------------------------
\* SpecCall: a CALL at p whose operand is addr, a RET at addr
\* ------------------------------------------------------------------------

MaxCallSteps == 2

\* where the CALL is, the stack pointer and the call target; sp = 259 with
\* p = 256, sp = 0 with p = 65534 and sp = 1 with p = 65533 make the pushed
\* word cover bytes of the CALL itself
CallSites == {256, 65533, 65534}

CallStacks == {768, 259, 1, 0}

CallTargets == {512, 65535, 5}

CallCpu(p, sp) == [i8080_init(CpuZero) EXCEPT !.SP = sp, !.PC = p]

CallMem(p, addr, call, return) ==
    LET m1 == WR_BYTE(MemZero, addr, return)
        m2 == WR_WORD(m1, p + 1, addr)
    IN  WR_BYTE(m2, p, call)

InitCall ==
    /\ \E p \in CallSites, sp \in CallStacks, addr \in CallTargets :
         \E call \in CallOpcodes, return \in RetOpcodes :
            /\ cpu = CallCpu(p, sp)
            /\ mem = CallMem(p, addr, call, return)
    /\ Fresh

StepCall == \E inp \in PortInputs : Step(MaxCallSteps, inp)

NextCall == StepCall

SpecCall == InitCall /\ [][NextCall]_vars

\* ------------------------------------------------------------------------
\* SpecXchg: XCHG ; XCHG and XTHL ; XTHL
\* ------------------------------------------------------------------------

MaxXchgSteps == 2

\* xchg, xthl
XchgOpcodes == {235, 227}

\* the word on the stack
XchgWords == {0, 4660, 33023, 65535}

\* the exchange at PC and again at PC+1, the word w at SP (with pc = sp =
\* 65535 the word on the stack is the program)
XchgMem(sc, op, w) ==
    LET m1 == WR_WORD(MemOf(sc, op), sc.sp, w)
        m2 == WR_BYTE(m1, sc.pc + 1, op)
    IN  WR_BYTE(m2, sc.pc, op)

InitXchg ==
    /\ \E sc \in Scenarios, f \in FlagBytes, cmc \in {0, 1} :
         \E op \in XchgOpcodes, w \in XchgWords :
            /\ cpu = CpuOf(sc, f, cmc)
            /\ mem = XchgMem(sc, op, w)
    /\ Fresh

StepXchg == \E inp \in PortInputs : Step(MaxXchgSteps, inp)

NextXchg == StepXchg

SpecXchg == InitXchg /\ [][NextXchg]_vars

\* ------------------------------------------------------------------------
\* SpecRot: two rotates in a row on every accumulator value and either carry
\* ------------------------------------------------------------------------

MaxRotSteps == 2

\* rlc, rrc, ral, rar
RotOpcodes == {7, 15, 23, 31}

\* the first rotate at the reset vector, the second right after it
RotMem(first, second) ==
    WR_BYTE(WR_BYTE(MemZero, 63489, second), 63488, first)

InitRot ==
    /\ \E a \in Byte, cin \in {0, 1}, first \in RotOpcodes, second \in RotOpcodes :
          /\ cpu = AluCpu(a, 0, cin, 0)
          /\ mem = RotMem(first, second)
    /\ Fresh

StepRot == \E inp \in PortInputs : Step(MaxRotSteps, inp)

NextRot == StepRot

SpecRot == InitRot /\ [][NextRot]_vars

\* ------------------------------------------------------------------------
\* SpecDaa: ADI b ; DAA on every accumulator value a and every operand b
\* ------------------------------------------------------------------------

MaxDaaSteps == 2

\* adi b at the reset vector, daa after it
DaaMem(b) ==
    WR_BYTE(WR_BYTE(WR_BYTE(MemZero, 63490, 39), 63489, b), 63488, 198)

InitDaa ==
    /\ \E a \in Byte, b \in Byte :
          /\ cpu = AluCpu(a, 0, 0, 0)
          /\ mem = DaaMem(b)
    /\ Fresh

StepDaa == \E inp \in PortInputs : Step(MaxDaaSteps, inp)

NextDaa == StepDaa

SpecDaa == InitDaa /\ [][NextDaa]_vars

\* ------------------------------------------------------------------------
\* SpecIff: EI or DI, then any instruction, then EI or DI, with calls of
\* init in between
\* ------------------------------------------------------------------------

MaxIffSteps == 3

\* di, ei
IffOpcodes == {243, 251}

\* three one-byte slots at the reset vector
IffMem(first, second, third) ==
    WR_BYTE(WR_BYTE(WR_BYTE(MemZero, 63490, third), 63489, second), 63488, first)

InitIff ==
    /\ \E first \in IffOpcodes, second \in Byte, third \in IffOpcodes :
          /\ cpu = i8080_init(CpuZero)
          /\ mem = IffMem(first, second, third)
    /\ Fresh

StepIff == \E inp \in PortInputs : Step(MaxIffSteps, inp)

NextIff == StepIff \/ DoInit

SpecIff == InitIff /\ [][NextIff]_vars

\* ------------------------------------------------------------------------
\* SpecFlags: POP PSW of any flags byte, then an instruction that writes
\* flags, then ACI or SBI, with calls of jump in between
\* ------------------------------------------------------------------------

MaxFlagSteps == 3

\* rlc, rrc, ral, rar, daa, stc, cmc, dad b, dad h, inr a, dcr a, adc b,
\* sbb b, ana b, the eight immediate ALU instructions, pop psw
FlagWriters ==
    {7, 15, 23, 31, 39, 55, 63, 9, 41, 60, 61, 136, 152, 160, 241}
        \cup AluImmOpcodes

\* the accumulator values popped with the flags byte
FlagAccs == {0, 15, 127, 128, 155, 255}

\* pop psw at the reset vector, the flag writer after it, then the bytes
\* 0xCE 0xDE 0x0F: aci 0xDE after a one-byte writer, sbi 0x0F after a
\* two-byte one (whose operand is then 0xCE); the word a:f on the stack
FlagMem(a, f, writer) ==
    LET m1 == WR_WORD(MemZero, 768, a * 256 + f)
        m2 == WR_BYTE(WR_BYTE(WR_BYTE(m1, 63492, 15), 63491, 222), 63490, 206)
    IN  WR_BYTE(WR_BYTE(m2, 63489, writer), 63488, 241)

InitFlags ==
    /\ \E a \in FlagAccs, f \in Byte, writer \in FlagWriters :
          /\ cpu = [i8080_init(CpuZero) EXCEPT !.SP = 768, !.B = 129, !.H = 200]
          /\ mem = FlagMem(a, f, writer)
    /\ Fresh

StepFlags == \E inp \in PortInputs : Step(MaxFlagSteps, inp)

NextFlags == StepFlags \/ JumpAny

SpecFlags == InitFlags /\ [][NextFlags]_vars

\* ------------------------------------------------------------------------
\* Properties
\* ------------------------------------------------------------------------

\* bit n of x, by arithmetic
BitOf(x, n) == (x \div (2 ^ n)) % 2

RECURSIVE PopCount(_)
PopCount(x) == IF x = 0 THEN 0 ELSE (x % 2) + PopCount(x \div 2)

EvenParity(x) == IF PopCount(x % 256) % 2 = 0 THEN 1 ELSE 0

Stepped == last = "step"

\* C1: every step, whatever opcode it fetched and whatever the state, returns
\* a strictly positive cycle count; the sentinel -1 is never returned.
C1_StepTotal == Stepped => (opc \in Byte /\ ret > 0 /\ ret # -1)

C1_Witness == Stepped /\ opc = 127 /\ ret = 5

\* the condition selected by (opcode >> 3) & 7, on the flags of c
CondHolds(op, c) ==
    LET k == (op \div 8) % 8
    IN  CASE k = 0 -> c.Z_FLAG = 0
          [] k = 1 -> c.Z_FLAG = 1
          [] k = 2 -> c.C_FLAG = 0
          [] k = 3 -> c.C_FLAG = 1
          [] k = 4 -> c.P_FLAG = 0
          [] k = 5 -> c.P_FLAG = 1
          [] k = 6 -> c.S_FLAG = 0
          [] k = 7 -> c.S_FLAG = 1

\* the cost the cycle table gives to the instruction class of opcode op when
\* it is fetched with the register file c; 0 for POP and DAA, which the table
\* omits
TableCost(op, c) ==
    LET lo3 == op % 8
        mid3 == (op \div 8) % 8
        top2 == op \div 64
        lo4 == op % 16
    IN
    CASE op \in {0, 8, 16, 24, 32, 40, 48, 56} -> 4
      [] op \in {7, 15, 23, 31, 55, 63, 47, 243, 251, 235, 118} -> 4
      [] op \in {52, 53, 54} -> 10
      [] op \in {50, 58} -> 13
      [] op \in {34, 42} -> 16
      [] op \in {233, 249} -> 5
      [] op \in {195, 203, 201, 217, 219, 211} -> 10
      [] op \in {205, 221, 237, 253} -> 17
      [] op = 227 -> 18
      [] op = 245 -> 11
      [] op \in {241, 39} -> 0
      [] top2 = 2 -> IF lo3 = 6 THEN 7 ELSE 4
      [] top2 = 1 -> IF lo3 = 6 \/ mid3 = 6 THEN 7 ELSE 5
      [] top2 = 0 /\ lo3 \in {4, 5} -> 5
      [] top2 = 0 /\ lo3 = 6 -> 7
      [] top2 = 0 /\ lo4 \in {3, 11} -> 5
      [] top2 = 0 /\ lo4 \in {2, 10} -> 7
      [] top2 = 0 /\ lo4 \in {1, 9} -> 10
      [] top2 = 3 /\ lo3 = 6 -> 7
      [] top2 = 3 /\ lo3 = 7 -> 11
      [] top2 = 3 /\ lo3 = 4 -> IF CondHolds(op, c) THEN 17 ELSE 11
      [] top2 = 3 /\ lo3 = 2 -> 10
      [] top2 = 3 /\ lo3 = 0 -> IF CondHolds(op, c) THEN 11 ELSE 5
      [] top2 = 3 /\ lo4 = 5 -> 11
      [] top2 = 3 /\ lo4 = 1 -> 0

\* C2: the value a step returns is the cost the cycle table gives to the
\* class of the instruction it executed.
C2_CycleTable ==
    (Stepped /\ TableCost(opc, prev.cpu) # 0) => ret = TableCost(opc, prev.cpu)

\* C3: right after any call of init, A, B, C, D, E, H, L, SP and IFF are 0,
\* the five logical flags are 0, the fixed flag bits are 1, 0, 0 and PC is
\* 0xF800.
C3_InitFullReset ==
    last = "init" =>
        /\ cpu.A = 0 /\ cpu.B = 0 /\ cpu.C = 0 /\ cpu.D = 0 /\ cpu.E = 0
        /\ cpu.H = 0 /\ cpu.L = 0 /\ cpu.SP = 0 /\ cpu.IFF = 0
        /\ cpu.S_FLAG = 0 /\ cpu.Z_FLAG = 0 /\ cpu.H_FLAG = 0
        /\ cpu.P_FLAG = 0 /\ cpu.C_FLAG = 0
        /\ cpu.UN1_FLAG = 1 /\ cpu.UN3_FLAG = 0 /\ cpu.UN5_FLAG = 0
        /\ cpu.PC = 63488

\* C4: right after an instruction that writes the packed flags byte F
\* (POP PSW, PUSH PSW), bits 1, 3 and 5 of F are 1, 0 and 0.
C4_FixedBitsOfF ==
    (Stepped /\ opc \in {241, 245}) =>
        (BitOf(cpu.F, 1) = 1 /\ BitOf(cpu.F, 3) = 0 /\ BitOf(cpu.F, 5) = 0)

\* the flags byte the logical flags of c stand for
FlagsByte(c) ==
    128 * c.S_FLAG + 64 * c.Z_FLAG + 16 * c.H_FLAG + 4 * c.P_FLAG + 2 + c.C_FLAG

\* C5: PUSH PSW sets SP to SP-2 and stores there A (high byte) and the flags
\* byte made of the current logical flags with bit 1 set and bits 3, 5 clear
\* (low byte); POP PSW sets the logical flags to bits 7, 6, 4, 2, 0 of the
\* popped low byte and A to the popped high byte.
C5_PswMaterialized ==
    /\ (Stepped /\ opc = 245) =>
          /\ cpu.SP = (prev.cpu.SP + 65534) % 65536
          /\ RD_BYTE(mem, cpu.SP + 1) = prev.cpu.A
          /\ RD_BYTE(mem, cpu.SP) = FlagsByte(prev.cpu)
    /\ (Stepped /\ opc = 241) =>
          LET low == RD_BYTE(prev.mem, prev.cpu.SP)
              high == RD_BYTE(prev.mem, prev.cpu.SP + 1)
          IN  /\ cpu.A = high
              /\ cpu.S_FLAG = BitOf(low, 7)
              /\ cpu.Z_FLAG = BitOf(low, 6)
              /\ cpu.H_FLAG = BitOf(low, 4)
              /\ cpu.P_FLAG = BitOf(low, 2)
              /\ cpu.C_FLAG = BitOf(low, 0)

\* PUSH PSW right after an ADI, with a packed F that differs from the byte
\* pushed
C5_Witness ==
    /\ Stepped /\ opc = 245
    /\ prev.last = "step" /\ prev.opc = 198
    /\ prev.cpu.F # RD_BYTE(mem, cpu.SP)
    /\ prev.cpu.Z_FLAG = 1

\* the value of the pair a PUSH opcode names; for AF the accumulator and the
\* flags byte the logical flags stand for
PairValue(push, c) ==
    CASE push = 197 -> c.B * 256 + c.C
      [] push = 213 -> c.D * 256 + c.E
      [] push = 229 -> c.H * 256 + c.L
      [] push = 245 -> c.A * 256 + FlagsByte(c)

FiveFlags(c) == <<c.S_FLAG, c.Z_FLAG, c.H_FLAG, c.P_FLAG, c.C_FLAG>>

\* the bytes at SP-2 and SP-1 hold neither the PUSH at PC nor the POP at PC+1
StackClear(c) ==
    {(c.SP + 65534) % 65536, (c.SP + 65535) % 65536}
        \cap {c.PC, (c.PC + 1) % 65536} = {}

\* a PUSH of a pair and then the POP of the same pair have just been stepped
PushThenPop ==
    /\ Stepped /\ prev.last = "step"
    /\ prev.opc \in PushOpcodes
    /\ opc = prev.opc - 4
    /\ StackClear(prev2.cpu)

CmpOperand(op, p) ==
    CASE op = 254 -> RD_BYTE(p.mem, p.cpu.PC + 1)
      [] op = 190 -> RD_BYTE(p.mem, p.cpu.H * 256 + p.cpu.L)
      [] op = 184 -> p.cpu.B
      [] op = 185 -> p.cpu.C
      [] op = 186 -> p.cpu.D
      [] op = 187 -> p.cpu.E
      [] op = 188 -> p.cpu.H
      [] op = 189 -> p.cpu.L
      [] op = 191 -> p.cpu.A

\* C7: CMP(v) leaves A unchanged and leaves S, Z, H, P, C as SUB(v) would set
\* them from the same starting state.
C7_CmpIsSubWithoutWriteBack ==
    (Stepped /\ opc \in (184..191) \cup {254}) =>
        /\ cpu.A = prev.cpu.A
        /\ FiveFlags(cpu) = FiveFlags(SUB(prev.cpu, CmpOperand(opc, prev)))

\* CPI with an operand larger than A, from a state with all flags set
C7_Witness ==
    /\ Stepped /\ opc = 254
    /\ prev.cpu.A = 16 /\ CmpOperand(254, prev) = 145
    /\ prev.cpu.Z_FLAG = 1 /\ prev.cpu.C_FLAG = 1
    /\ cpu.C_FLAG = 1 /\ cpu.S_FLAG = 0

\* the 8-bit result of the ALU instruction the last step executed: the new
\* accumulator, the hypothetical difference for CPI, the new byte at HL for
\* INR M / DCR M
AluResult ==
    CASE opc = 254 -> (prev.cpu.A + 256 - CmpOperand(254, prev)) % 256
      [] opc \in {52, 53} -> RD_BYTE(mem, cpu.H * 256 + cpu.L)
      [] OTHER -> cpu.A

\* C8: after ADD, ADC, SUB, SBB, CMP, ANA, ORA, XRA, INR and DCR the P flag
\* is 1 exactly when the low 8 bits of the result have an even number of 1
\* bits.
C8_Parity ==
    (Stepped /\ opc \in AluImmOpcodes \cup IncDecOpcodes) =>
        cpu.P_FLAG = EvenParity(AluResult)

C8_Witness ==
    /\ Stepped /\ opc = 222
    /\ prev.cpu.A = 0 /\ prev.cpu.C_FLAG = 1
    /\ RD_BYTE(prev.mem, prev.cpu.PC + 1) = 255
    /\ cpu.A = 0 /\ cpu.P_FLAG = 1

\* C9: from init on all-zero memory every step returns 4, advances PC by one
\* modulo 65536 and changes nothing else, so n steps cost 4n cycles and PC
\* is back at 0xF800 after 65536 steps.
C9_NopRun ==
    /\ Stepped => ret = 4
    /\ Stepped => cpu.PC = (prev.cpu.PC + 1) % 65536
    /\ [cpu EXCEPT !.PC = 0] = [prev.cpu EXCEPT !.PC = 0]
    /\ mem = prev.mem /\ M = prev.M
    /\ cpu.PC = (63488 + nsteps) % 65536
    /\ cycles = 4 * nsteps
    /\ nsteps = 65536 => cpu.PC = 63488

C9_Witness == nsteps = 65536 /\ cpu.PC = 63488 /\ cycles = 262144

\* C10: a step that fetches HLT (0x76) returns 4 and leaves PC, every
\* register, flag, latch and memory byte as they were; and when the call
\* that follows such a step is again a step, it fetches HLT again.
C10_HltSteady ==
    [][ /\ (last' = "step" /\ opc' = 118) =>
              (ret' = 4 /\ cpu' = cpu /\ mem' = mem /\ M' = M)
        /\ (Stepped /\ opc = 118 /\ last' = "step") => opc' = 118 ]_vars

\* two HLT steps in a row, the HLT sitting at 0xFFFF
C10_Witness ==
    /\ Stepped /\ opc = 118 /\ cpu.PC = 65535
    /\ prev.last = "step" /\ prev.opc = 118

\* the operand word of the three-byte instruction at the PC of the machine p
OperandWord(p) == RD_WORD(p.mem, p.cpu.PC + 1)

\* C11: a step of CALL (0xCD, 0xDD, 0xED, 0xFD) located at p with operand
\* addr sets SP to SP-2, stores p+3 little-endian at the new SP, sets PC to
\* addr and returns 17; a RET (0xC9, 0xD9) stepped right after it at addr sets
\* PC to p+3, restores SP, leaves the return address in memory and returns 10,
\* 27 cycles for the pair.
C11_CallRetRoundTrip ==
    /\ (Stepped /\ opc \in CallOpcodes) =>
          /\ cpu.SP = (prev.cpu.SP + 65534) % 65536
          /\ RD_WORD(mem, cpu.SP) = (prev.cpu.PC + 3) % 65536
          /\ cpu.PC = OperandWord(prev)
          /\ ret = 17
    /\ (Stepped /\ opc \in RetOpcodes /\ prev.last = "step"
            /\ prev.opc \in CallOpcodes) =>
          /\ cpu.PC = (prev2.cpu.PC + 3) % 65536
          /\ cpu.SP = prev2.cpu.SP
          /\ RD_WORD(mem, prev.cpu.SP) = (prev2.cpu.PC + 3) % 65536
          /\ ret = 10
          /\ prev.ret + ret = 27

\* the pushed word and the operand of the CALL share no byte
CallClear(c) ==
    {(c.SP + 65534) % 65536, (c.SP + 65535) % 65536}
        \cap {(c.PC + 1) % 65536, (c.PC + 2) % 65536} = {}

\* the part of C11 about the CALL, for the calls whose pushed word does not
\* cover their operand
C11_CallClearOfOperand ==
    (Stepped /\ opc \in CallOpcodes /\ CallClear(prev.cpu)) =>
        cpu.PC = OperandWord(prev)

\* CALL ; RET completed, with the pushed word away from the CALL
C11_RoundTripDone ==
    /\ Stepped /\ opc = 201 /\ prev.last = "step" /\ prev.opc = 205
    /\ CallClear(prev2.cpu)
    /\ cpu.PC = 259 /\ cpu.SP = 768 /\ prev.cpu.PC = 512

\* the last two calls were steps of the opcode op
Twice(op) == Stepped /\ opc = op /\ prev.last = "step" /\ prev.opc = op

\* C12: XCHG executed twice leaves DE and HL as they were; XTHL executed
\* twice leaves HL and the word at SP as they were; neither instruction
\* changes SP, A, BC or any flag.
C12_ExchangeInvolutions ==
    /\ Twice(235) => (DE(cpu) = DE(prev2.cpu) /\ HL(cpu) = HL(prev2.cpu))
    /\ Twice(227) =>
          /\ HL(cpu) = HL(prev2.cpu)
          /\ RD_WORD(mem, cpu.SP) = RD_WORD(prev2.mem, prev2.cpu.SP)
    /\ (Stepped /\ opc \in {235, 227}) =>
          /\ cpu.SP = prev.cpu.SP /\ cpu.A = prev.cpu.A
          /\ BC(cpu) = BC(prev.cpu)
          /\ FiveFlags(cpu) = FiveFlags(prev.cpu)

\* XTHL ; XTHL on a stack word that differs from HL
C12_Witness ==
    /\ Twice(227) /\ cpu.SP = 1
    /\ HL(prev.cpu) = 4660 /\ HL(cpu) = 65535
    /\ RD_WORD(prev.mem, 1) = 65535 /\ RD_WORD(mem, 1) = 4660

\* XCHG ; XCHG with DE and HL different
C12_XchgTwice == Twice(235) /\ DE(cpu) # HL(cpu) /\ DE(prev.cpu) = HL(cpu)

\* the 9-bit quantity (C, A) of the register file c, C being bit 8
CarryAndA(c) == c.C_FLAG * 256 + c.A

\* C13: RLC sets C to the old bit 7 of A and rotates A left by one, bit 0
\* receiving the old bit 7; RRC sets C to the old bit 0 and rotates A right
\* by one, bit 7 receiving the old bit 0; RLC then RRC restores A; RAL and RAR
\* rotate the 9-bit quantity (C, A) left and right by one.
C13_Rotates ==
    /\ (Stepped /\ opc = 7) =>
          /\ cpu.C_FLAG = BitOf(prev.cpu.A, 7)
          /\ cpu.A = ((prev.cpu.A * 2) % 256) + BitOf(prev.cpu.A, 7)
    /\ (Stepped /\ opc = 15) =>
          /\ cpu.C_FLAG = BitOf(prev.cpu.A, 0)
          /\ cpu.A = (prev.cpu.A \div 2) + 128 * BitOf(prev.cpu.A, 0)
    /\ (Stepped /\ opc = 15 /\ prev.last = "step" /\ prev.opc = 7) =>
          cpu.A = prev2.cpu.A
    /\ (Stepped /\ opc = 23) =>
          CarryAndA(cpu) = ((CarryAndA(prev.cpu) * 2) % 512)
                               + (CarryAndA(prev.cpu) \div 256)
    /\ (Stepped /\ opc = 31) =>
          CarryAndA(cpu) = (CarryAndA(prev.cpu) \div 2)
                               + 256 * (CarryAndA(prev.cpu) % 2)

\* RLC ; RRC on 0x81 entered with the carry clear
C13_Witness ==
    /\ Stepped /\ opc = 15 /\ prev.last = "step" /\ prev.opc = 7
    /\ prev2.cpu.A = 129 /\ prev2.cpu.C_FLAG = 0
    /\ prev.cpu.A = 3 /\ prev.cpu.C_FLAG = 1
    /\ cpu.A = 129 /\ cpu.C_FLAG = 1

\* RAL of 0x80 with the carry clear: the 1 leaves A and the 0 enters it
C13_RalThroughCarry ==
    /\ Stepped /\ opc = 23 /\ prev.cpu.A = 128 /\ prev.cpu.C_FLAG = 0
    /\ cpu.A = 0 /\ cpu.C_FLAG = 1

\* packed BCD: both nibbles are decimal digits
IsBcd(x) == x % 16 <= 9 /\ x \div 16 <= 9

\* the number 0..99 a packed-BCD byte stands for, and the byte for a number
BcdValue(x) == 10 * (x \div 16) + (x % 16)

ToBcd(n) == 16 * (n \div 10) + (n % 10)

\* ADI b and then DAA have just been stepped
AdiThenDaa == Stepped /\ opc = 39 /\ prev.last = "step" /\ prev.opc = 198

\* C14: for valid packed-BCD a and b, ADD b on A = a followed by DAA leaves in
\* A the packed-BCD encoding of (a + b) mod 100, with C = 1 exactly when the
\* decimal sum is 100 or more; DAA on A = 0x9B with H = 0 and C = 0 gives
\* A = 0x01, C = 1, H = 1.
C14_DaaBcdSum ==
    /\ (AdiThenDaa /\ IsBcd(prev2.cpu.A) /\ IsBcd(RD_BYTE(prev2.mem, prev2.cpu.PC + 1))) =>
          LET sum == BcdValue(prev2.cpu.A)
                       + BcdValue(RD_BYTE(prev2.mem, prev2.cpu.PC + 1))
          IN  /\ cpu.A = ToBcd(sum % 100)
              /\ cpu.C_FLAG = (IF sum >= 100 THEN 1 ELSE 0)
    /\ (Stepped /\ opc = 39 /\ prev.cpu.A = 155
            /\ prev.cpu.H_FLAG = 0 /\ prev.cpu.C_FLAG = 0) =>
          (cpu.A = 1 /\ cpu.C_FLAG = 1 /\ cpu.H_FLAG = 1)

\* 95 + 5 = 100: the binary sum 0x9A has no carry and no half-carry, and DAA
\* must carry out of both digits
C14_Witness ==
    /\ AdiThenDaa /\ prev2.cpu.A = 149
    /\ RD_BYTE(prev2.mem, prev2.cpu.PC + 1) = 5
    /\ prev.cpu.A = 154 /\ prev.cpu.C_FLAG = 0 /\ prev.cpu.H_FLAG = 0
    /\ cpu.A = 0 /\ cpu.C_FLAG = 1

\* DAA entered with A = 0x9B, H = 0, C = 0
C14_Daa9B ==
    /\ Stepped /\ opc = 39 /\ prev.cpu.A = 155
    /\ prev.cpu.H_FLAG = 0 /\ prev.cpu.C_FLAG = 0 /\ cpu.A = 1

\* the values the host was notified of by the calls of i8080_hal_iff in log
IffNotes(log) == SelectSeq(log, LAMBDA e : e.fn = "iff")

\* C15: after EI the latch IFF is 1 and after DI it is 0; each of them calls
\* the host's iff notification exactly once, with the new value of the latch;
\* no other instruction changes IFF or calls the notification; so the last
\* value notified is always the current latch.
C15_IffLatch ==
    /\ [](iffnote # -1 => iffnote = cpu.IFF)
    /\ [][ /\ (last' = "step" /\ opc' = 251) =>
                 /\ cpu'.IFF = 1
                 /\ IffNotes(hal') = <<[fn |-> "iff", port |-> 0, value |-> 1]>>
           /\ (last' = "step" /\ opc' = 243) =>
                 /\ cpu'.IFF = 0
                 /\ IffNotes(hal') = <<[fn |-> "iff", port |-> 0, value |-> 0]>>
           /\ (last' = "step" /\ opc' \notin IffOpcodes) =>
                 /\ cpu'.IFF = cpu.IFF
                 /\ IffNotes(hal') = <<>>
           /\ last' # "step" => (cpu'.IFF = cpu.IFF /\ iffnote' = iffnote) ]_vars

\* EI, an instruction in between, then DI: the latch went 1, 1, 0
C15_Witness ==
    /\ Stepped /\ opc = 243 /\ cpu.IFF = 0 /\ iffnote = 0
    /\ prev.last = "step" /\ prev.opc \notin IffOpcodes /\ prev.cpu.IFF = 1
    /\ prev2.cpu.IFF = 1

\* the immediate operand of the instruction the last step executed, and the
\* accumulator and the carry it was entered with
ImmOperand == RD_BYTE(prev.mem, prev.cpu.PC + 1)

NibbleSum(cin) == (prev.cpu.A % 16) + (ImmOperand % 16) + cin

NoNibbleBorrow(cin) == prev.cpu.A % 16 >= (ImmOperand % 16) + cin

\* C16: after ADD and ADC, H = 1 exactly when (A mod 16) + (v mod 16) + c is
\* above 15; after SUB, CMP and SBB, H = 1 exactly when (A mod 16) is at
\* least (v mod 16) + c; c is the carry-in for ADC and SBB and 0 otherwise.
C16_HalfCarry ==
    /\ (Stepped /\ opc = 198) => (cpu.H_FLAG = 1 <=> NibbleSum(0) > 15)
    /\ (Stepped /\ opc = 206) =>
          (cpu.H_FLAG = 1 <=> NibbleSum(prev.cpu.C_FLAG) > 15)
    /\ (Stepped /\ opc \in {214, 254}) => (cpu.H_FLAG = 1 <=> NoNibbleBorrow(0))
    /\ (Stepped /\ opc = 222) =>
          (cpu.H_FLAG = 1 <=> NoNibbleBorrow(prev.cpu.C_FLAG))
    /\ (Stepped /\ opc \in {198, 206, 214, 222, 254}) => cpu.H_FLAG \in {0, 1}

\* SBI 0x0F with the borrow set on A = 0x10: the operand nibble plus the
\* borrow is 16, so the low nibble borrows and H = 0
C16_Witness ==
    /\ Stepped /\ opc = 222 /\ prev.cpu.A = 16 /\ ImmOperand = 15
    /\ prev.cpu.C_FLAG = 1 /\ cpu.H_FLAG = 0 /\ cpu.A = 0

\* the sum and the difference the last step computed, before truncation
FullSum(cin) == prev.cpu.A + ImmOperand + cin

FullDiff(cin) == prev.cpu.A - ImmOperand - cin

\* C17: ADD sets A to (A + v) mod 256 with C = 1 exactly when A + v >= 256;
\* ADC does the same with the carry-in added; SUB sets A to (A - v) mod 256
\* with C = 1 exactly when v > A; SBB sets A to (A - v - c) mod 256 with
\* C = 1 exactly when v + c > A; in each case S is bit 7 of the result and Z
\* is 1 exactly when the result is 0.
C17_ArithmeticResult ==
    /\ (Stepped /\ opc = 198) =>
          /\ cpu.A = FullSum(0) % 256
          /\ cpu.C_FLAG = 1 <=> FullSum(0) >= 256
    /\ (Stepped /\ opc = 206) =>
          /\ cpu.A = FullSum(prev.cpu.C_FLAG) % 256
          /\ cpu.C_FLAG = 1 <=> FullSum(prev.cpu.C_FLAG) >= 256
    /\ (Stepped /\ opc = 214) =>
          /\ cpu.A = (FullDiff(0) + 256) % 256
          /\ cpu.C_FLAG = 1 <=> ImmOperand > prev.cpu.A
    /\ (Stepped /\ opc = 222) =>
          /\ cpu.A = (FullDiff(prev.cpu.C_FLAG) + 512) % 256
          /\ cpu.C_FLAG = 1 <=> ImmOperand + prev.cpu.C_FLAG > prev.cpu.A
    /\ (Stepped /\ opc \in {198, 206, 214, 222}) =>
          /\ cpu.C_FLAG \in {0, 1}
          /\ cpu.S_FLAG = BitOf(cpu.A, 7)
          /\ cpu.Z_FLAG = (IF cpu.A = 0 THEN 1 ELSE 0)

\* SBI 0xFF with the borrow set: v + c = 256 exceeds every A
C17_Witness ==
    /\ Stepped /\ opc = 222 /\ prev.cpu.A = 255 /\ ImmOperand = 255
    /\ prev.cpu.C_FLAG = 1 /\ cpu.A = 255 /\ cpu.C_FLAG = 1 /\ cpu.S_FLAG = 1

\* ADI entered with the carry set: the carry-in is not added
C17_AddIgnoresCarry ==
    /\ Stepped /\ opc = 198 /\ prev.cpu.C_FLAG = 1 /\ prev.cpu.A = 255
    /\ ImmOperand = 0 /\ cpu.A = 255 /\ cpu.C_FLAG = 0

\* conditional return, jump, call: 11 ccc 000, 11 ccc 010, 11 ccc 100
RccOpcodes == {op \in 192..255 : op % 8 = 0}

JccOpcodes == {op \in 192..255 : op % 8 = 2}

CccOpcodes == {op \in 192..255 : op % 8 = 4}

\* the condition of the instruction the last step executed held when it was
\* fetched: codes 0..7 are NZ, Z, NC, C, PO, PE, P, M
Taken == CondHolds(opc, prev.cpu)

\* what C18 says of the last step; jumpChecked tells whether the target of a
\* taken conditional call is part of it
CondFlow(jumpChecked) ==
    /\ (Stepped /\ opc \in JccOpcodes) =>
          /\ ret = 10
          /\ cpu.PC = IF Taken THEN OperandWord(prev)
                               ELSE (prev.cpu.PC + 3) % 65536
          /\ cpu.SP = prev.cpu.SP /\ mem = prev.mem
    /\ (Stepped /\ opc \in CccOpcodes /\ Taken) =>
          /\ ret = 17
          /\ cpu.SP = (prev.cpu.SP + 65534) % 65536
          /\ RD_WORD(mem, cpu.SP) = (prev.cpu.PC + 3) % 65536
          /\ jumpChecked => cpu.PC = OperandWord(prev)
    /\ (Stepped /\ opc \in CccOpcodes /\ ~Taken) =>
          /\ ret = 11
          /\ cpu.PC = (prev.cpu.PC + 3) % 65536
          /\ cpu.SP = prev.cpu.SP /\ mem = prev.mem
    /\ (Stepped /\ opc \in RccOpcodes /\ Taken) =>
          /\ ret = 11
          /\ cpu.PC = RD_WORD(prev.mem, prev.cpu.SP)
          /\ cpu.SP = (prev.cpu.SP + 2) % 65536
    /\ (Stepped /\ opc \in RccOpcodes /\ ~Taken) =>
          /\ ret = 5
          /\ cpu.PC = (prev.cpu.PC + 1) % 65536
          /\ cpu.SP = prev.cpu.SP /\ mem = prev.mem
    /\ (Stepped /\ opc \in JccOpcodes \cup CccOpcodes \cup RccOpcodes) =>
          FiveFlags(cpu) = FiveFlags(prev.cpu)

\* C18: condition codes 0..7 in opcode bits 5..3 mean NZ, Z, NC, C, PO, PE,
\* P, M. When the condition holds Jcc sets PC to the operand word, Ccc pushes
\* the address after its operand and jumps (17 cycles), Rcc pops PC (11
\* cycles); when it does not hold Jcc and Ccc skip the operand (PC + 3, Ccc
\* 11 cycles) and Rcc falls through (PC + 1, 5 cycles); Jcc costs 10 either
\* way; a not-taken conditional leaves SP and memory unchanged; no
\* conditional changes a flag.
C18_ConditionalFlow == CondFlow(TRUE)

\* C18 without the target of the taken calls whose pushed word covers their
\* operand
C18_ClearOfOperand == CondFlow(CallClear(prev.cpu))

\* CPE taken (P = 1) with the carry clear
C18_CallTaken ==
    /\ Stepped /\ opc = 236 /\ prev.cpu.P_FLAG = 1 /\ prev.cpu.C_FLAG = 0
    /\ ret = 17 /\ cpu.PC = 512 /\ cpu.SP = 766

\* RM not taken (S = 0): 5 cycles
C18_ReturnNotTaken == Stepped /\ opc = 248 /\ prev.cpu.S_FLAG = 0 /\ ret = 5

\* opcode classes of the flag frame: inr/dcr; dad, the rotates, stc, cmc;
\* the 8-bit ALU instructions (register, memory and immediate forms, daa
\* included)
IncDecClass == {op \in 0..63 : op % 8 \in {4, 5}}

CarryOnlyClass == {op \in 0..63 : op % 16 = 9} \cup RotOpcodes \cup {55, 63}

AluClass == (128..191) \cup {op \in 192..255 : op % 8 = 6} \cup {39}

\* data transfer, stack, branch, I/O and latch instructions, cma, nop, hlt:
\* every opcode outside the classes above except pop psw
FlagFrameClass ==
    Byte \ (IncDecClass \cup CarryOnlyClass \cup AluClass \cup {241})

\* C19: INR and DCR leave C unchanged; DAD, RLC, RRC, RAL, RAR, STC and CMC
\* change no flag other than C; the data transfer, stack, branch, I/O and
\* latch instructions and CMA, NOP, HLT leave all five flags unchanged; POP
\* PSW is the only instruction outside the ALU that changes them (to the bits
\* of the popped byte).
C19_FlagFrame ==
    /\ (Stepped /\ opc \in IncDecClass) => cpu.C_FLAG = prev.cpu.C_FLAG
    /\ (Stepped /\ opc \in CarryOnlyClass) =>
          /\ cpu.S_FLAG = prev.cpu.S_FLAG /\ cpu.Z_FLAG = prev.cpu.Z_FLAG
          /\ cpu.H_FLAG = prev.cpu.H_FLAG /\ cpu.P_FLAG = prev.cpu.P_FLAG
    /\ (Stepped /\ opc \in FlagFrameClass) =>
          FiveFlags(cpu) = FiveFlags(prev.cpu)
    /\ (Stepped /\ opc = 241) =>
          FlagsByte(cpu) = BitOr(BitAnd(RD_BYTE(prev.mem, prev.cpu.SP), 215), 2)

\* INR B from 0xFF with the carry clear: Z is set and the carry stays clear
C19_Witness ==
    /\ Stepped /\ opc = 4 /\ prev.cpu.B = 255 /\ prev.cpu.C_FLAG = 0
    /\ cpu.B = 0 /\ cpu.Z_FLAG = 1 /\ cpu.C_FLAG = 0

\* POP PSW changing all five flags
C19_PopPswChanges ==
    /\ Stepped /\ opc = 241
    /\ FiveFlags(prev.cpu) = <<0, 0, 0, 0, 0>>
    /\ FiveFlags(cpu) = <<1, 1, 1, 1, 1>>

\* DAD changing the carry and nothing else
C19_DadCarry ==
    /\ Stepped /\ opc \in {9, 25, 41, 57} /\ cpu.C_FLAG # prev.cpu.C_FLAG
    /\ prev.cpu.Z_FLAG = 1

\* the last step advanced PC by n and returned k cycles
Advanced(n, k) == cpu.PC = (prev.cpu.PC + n) % 65536 /\ ret = k

\* C20 as stated: the LDAX and STAX cases of the pair-operand decoder are
\* reached for pair indices 2 and 3 too, so that 0x2A loads A from the byte
\* at HL, 0x3A loads A from the byte at SP, 0x22 stores A at HL and 0x32
\* stores A at SP, each in 7 cycles with PC advanced by 1.
C20_UndocumentedPairIndices ==
    /\ (Stepped /\ opc = 42) =>
          (cpu.A = RD_BYTE(prev.mem, HL(prev.cpu)) /\ Advanced(1, 7))
    /\ (Stepped /\ opc = 58) =>
          (cpu.A = RD_BYTE(prev.mem, prev.cpu.SP) /\ Advanced(1, 7))
    /\ (Stepped /\ opc = 34) =>
          (RD_BYTE(mem, HL(prev.cpu)) = prev.cpu.A /\ Advanced(1, 7))
    /\ (Stepped /\ opc = 50) =>
          (RD_BYTE(mem, prev.cpu.SP) = prev.cpu.A /\ Advanced(1, 7))

\* C20, amended: the LDAX and STAX cases are reached for pair indices 0 and 1
\* only: 0x0A and 0x1A load A from the byte at BC and DE, 0x02 and 0x12 store
\* A at BC and DE, each in 7 cycles with PC advanced by 1. Opcodes 0x2A, 0x3A,
\* 0x22 and 0x32 are matched first as LHLD, LDA, SHLD and STA: they take a
\* two-byte address operand, advance PC by 3 and return 16, 13, 16 and 13.
C20_PairIndicesIntercepted ==
    /\ (Stepped /\ opc = 10) =>
          (cpu.A = RD_BYTE(prev.mem, BC(prev.cpu)) /\ Advanced(1, 7))
    /\ (Stepped /\ opc = 26) =>
          (cpu.A = RD_BYTE(prev.mem, DE(prev.cpu)) /\ Advanced(1, 7))
    /\ (Stepped /\ opc = 2) =>
          (RD_BYTE(mem, BC(prev.cpu)) = prev.cpu.A /\ Advanced(1, 7))
    /\ (Stepped /\ opc = 18) =>
          (RD_BYTE(mem, DE(prev.cpu)) = prev.cpu.A /\ Advanced(1, 7))
    /\ (Stepped /\ opc = 42) =>
          (HL(cpu) = RD_WORD(prev.mem, OperandWord(prev)) /\ Advanced(3, 16))
    /\ (Stepped /\ opc = 58) =>
          (cpu.A = RD_BYTE(prev.mem, OperandWord(prev)) /\ Advanced(3, 13))
    /\ (Stepped /\ opc = 34) =>
          (RD_WORD(mem, OperandWord(prev)) = HL(prev.cpu) /\ Advanced(3, 16))
    /\ (Stepped /\ opc = 50) =>
          (RD_BYTE(mem, OperandWord(prev)) = prev.cpu.A /\ Advanced(3, 13))

\* 0x2A executed as LHLD: HL loaded from the operand address, A and the byte
\* at the old HL different, 16 cycles
C20_Witness ==
    /\ Stepped /\ opc = 42 /\ ret = 16 /\ cpu.PC = 259
    /\ cpu.A = prev.cpu.A /\ cpu.A # RD_BYTE(prev.mem, HL(prev.cpu))
    /\ HL(cpu) # HL(prev.cpu)

\* adc r, adc m, aci, sbb r, sbb m, sbi
CarryInOpcodes == (136..143) \cup (152..159) \cup {206, 222}

\* C21: in every state reached from init by steps and jumps, over any memory
\* contents (POP PSW of any byte, RRC/RAR, CMC and DAA included), each of the
\* logical flags S, Z, H, P and C is exactly 0 or 1, so the carry that ADC and
\* SBB add or subtract is 0 or 1.
C21_FlagsAreBooleans ==
    /\ cpu.S_FLAG \in {0, 1} /\ cpu.Z_FLAG \in {0, 1} /\ cpu.H_FLAG \in {0, 1}
    /\ cpu.P_FLAG \in {0, 1} /\ cpu.C_FLAG \in {0, 1}
    /\ (Stepped /\ opc \in CarryInOpcodes) =>
          /\ prev.cpu.C_FLAG \in {0, 1}
          /\ opc = 206 => cpu.A = (prev.cpu.A + ImmOperand + prev.cpu.C_FLAG) % 256
          /\ opc = 222 =>
                cpu.A = (prev.cpu.A - ImmOperand - prev.cpu.C_FLAG + 512) % 256

\* POP PSW of 0xFF, then RAR, then ACI adding the carry RAR produced
C21_Witness ==
    /\ Stepped /\ opc = 206 /\ prev.last = "step" /\ prev.opc = 31
    /\ RD_BYTE(prev2.mem, 768) = 255 /\ prev2.cpu.C_FLAG = 1
    /\ prev.cpu.C_FLAG = 1 /\ prev.cpu.A = 255
    /\ cpu.A = (255 + 222 + 1) % 256

\* the addresses whose byte the last step changed
Written ==
    {a \in DOMAIN mem \cup DOMAIN prev.mem : RD_BYTE(mem, a) # RD_BYTE(prev.mem, a)}

\* addr and addr + 1, modulo 65536
WordAt(addr) == {addr % 65536, (addr + 1) % 65536}

\* rst n: 11 nnn 111; mov m,r: 01 110 sss without hlt
RstOpcodes == {op \in 192..255 : op % 8 = 7}

MovToMemOpcodes == (112..119) \ {118}

\* the addresses C22 lets the instruction of the last step write
StoreTargets ==
    CASE opc = 50 -> {OperandWord(prev)}
      [] opc = 34 -> WordAt(OperandWord(prev))
      [] opc = 2 -> {BC(prev.cpu)}
      [] opc = 18 -> {DE(prev.cpu)}
      [] opc \in MovToMemOpcodes \cup {54, 52, 53} -> {HL(prev.cpu)}
      [] opc \in PushOpcodes \cup CallOpcodes \cup RstOpcodes ->
            WordAt(prev.cpu.SP + 65534)
      [] opc \in CccOpcodes /\ Taken -> WordAt(prev.cpu.SP + 65534)
      [] opc = 227 -> WordAt(prev.cpu.SP)
      [] OTHER -> {}

\* C22: a step writes memory only when its instruction is a store, and then
\* only at its target: STA and SHLD at the operand address (SHLD also at
\* address + 1), STAX at BC or DE, MOV M,r / MVI M / INR M / DCR M at HL,
\* PUSH, PUSH PSW, CALL, taken Ccc and RST at the new SP and SP + 1, XTHL at
\* SP and SP + 1; every other instruction leaves every memory byte unchanged.
C22_MemoryFrame ==
    /\ Stepped => Written \subseteq StoreTargets
    /\ (Stepped /\ StoreTargets = {}) => mem = prev.mem
    /\ ~Stepped => mem = prev.mem

\* SHLD storing HL across the wrap from 0xFFFF to 0
C22_Witness ==
    /\ Stepped /\ opc = 34 /\ OperandWord(prev) = 65535
    /\ Written = {65535, 0}

\* POP D reading a non-zero word and leaving it in memory
C22_PopKeepsMemory ==
    /\ Stepped /\ opc = 209 /\ DE(cpu) # 0 /\ mem = prev.mem
    /\ RD_WORD(mem, prev.cpu.SP) = DE(cpu)

====
